---------------------------- MODULE Spec2Model ----------------------------
(***************************************************************************)
(* Model of teuthology/provision/fog.py: the FOG reimaging session         *)
(* (FOG.create and the methods it calls), the module functions enabled()   *)
(* and get_types(), and the part of the FOG service the session talks to   *)
(* (its active-task list).                                                 *)
(*                                                                         *)
(* Python values are modelled as follows.  A string whose characters       *)
(* matter (machine_types) is a sequence of one-character strings; other    *)
(* strings are TLA+ strings, "" being the empty (falsy) one.  None is the  *)
(* integer 0 where the value is otherwise a positive id.  A raised         *)
(* exception is the value of `error' with pc = "raised".                   *)
(***************************************************************************)
EXTENDS Integers, Sequences, FiniteSets, TLC

(***************************************************************************)
(* Bounds of the model.                                                    *)
(***************************************************************************)
\* Tasks already active on the service when the session starts: at most this many.
MaxStale == 1
\* Clock readings range over 0..MaxTime (seconds); a createdTime is 0 or MaxTime.
MaxTime == 6
\* config.fog_reimage_timeout of a create() run: 1..MaxWaitSleeps sleeps of the wait.
MaxWaitSleeps == 1
\* A config.fog_reimage_timeout beyond the attempt budget (Tries * Sleep seconds).
LongTimeout == 3600

(***************************************************************************)
(* Program constants.                                                      *)
(***************************************************************************)
\* fog.py:235  "if time_delta < 5"
FreshSeconds == 5
\* fog.py:268  safe_while(sleep=15, tries=120, ...)
Sleep == 15
Tries == 120
\* The value of a function that returns without a return statement.
None == 0

Times == 0..MaxTime
StampTimes == {0, MaxTime}
ShortName == "node7"
OtherName == "node8"
HostNames == {ShortName, OtherName}
MachineType == "smithi"

(***************************************************************************)
(* Configuration: config.fog and the truthiness test of enabled().         *)
(***************************************************************************)
\* machine_types is absent (None), a string (sequence of characters) or a list of strings.
MtNone == [kind |-> "none", s |-> <<>>, l |-> <<>>]
MtStr(s) == [kind |-> "str", s |-> s, l |-> <<>>]
MtList(l) == [kind |-> "list", s |-> <<>>, l |-> l]
MachineTypesValues ==
    { MtNone, MtStr(<<>>), MtStr(<<",">>), MtStr(<<"a", ",", "b">>),
      MtList(<<>>), MtList(<<<<"a">>>>) }
TokenValues == {"", "set"}
Configs ==
    [endpoint : TokenValues, api_token : TokenValues, user_token : TokenValues,
     machine_types : MachineTypesValues]

\* "not fog_conf.get(param)" for a string parameter.
FalsyStr(v) == v = ""
\* "not fog_conf.get('machine_types')": None, '' and [] are falsy.
FalsyMt(mt) ==
    \/ mt.kind = "none"
    \/ mt.kind = "str" /\ mt.s = <<>>
    \/ mt.kind = "list" /\ mt.l = <<>>

\* The list `unset' of enabled().
unset(c) ==
    {p \in {"endpoint", "api_token", "user_token"} : FalsyStr(c[p])}
        \cup (IF FalsyMt(c.machine_types) THEN {"machine_types"} ELSE {})

enabled(c) == unset(c) = {}

\* str.split(','): the pieces between the commas, empty pieces kept.
RECURSIVE SplitFrom(_, _, _)
SplitFrom(s, i, cur) ==
    IF i > Len(s) THEN <<cur>>
    ELSE IF s[i] = "," THEN <<cur>> \o SplitFrom(s, i + 1, <<>>)
    ELSE SplitFrom(s, i + 1, Append(cur, s[i]))
split(s) == SplitFrom(s, 1, <<>>)

\* [type_ for type_ in types if type_]
NonEmpty(l) == SelectSeq(l, LAMBDA x : x # <<>>)

get_types(c) ==
    IF ~enabled(c) THEN <<>>
    ELSE IF c.machine_types.kind = "list" THEN NonEmpty(c.machine_types.l)
    ELSE NonEmpty(split(c.machine_types.s))

(***************************************************************************)
(* Responses of the service and the request wrapper.                       *)
(***************************************************************************)
\* do_request: with verify (the default) a non-success status raises HTTPError.
do_request_raises(r, verify) == verify /\ ~r.ok

\* All orderings of a finite set, as sequences.
RECURSIVE Orderings(_)
Orderings(S) ==
    IF S = {} THEN {<<>>}
    ELSE UNION { {<<x>> \o t : t \in Orderings(S \ {x})} : x \in S }

\* GET /task/active: a non-success status, a success whose body does not parse
\* (or holds no 'tasks'), or the active tasks of all hosts in some order.
NoResp == [sent |-> FALSE, ok |-> FALSE, json |-> FALSE, tasks |-> <<>>]
ActiveResponses(active) ==
    { [sent |-> TRUE, ok |-> FALSE, json |-> FALSE, tasks |-> <<>>],
      [sent |-> TRUE, ok |-> TRUE, json |-> FALSE, tasks |-> <<>>] }
        \cup { [sent |-> TRUE, ok |-> TRUE, json |-> TRUE, tasks |-> o] :
               o \in Orderings(active) }

\* The return value of a call: raised with an error, or a value.
Raised(e) == [raised |-> TRUE, err |-> e, val |-> <<>>]
Returned(v) == [raised |-> FALSE, err |-> "", val |-> v]
NoCall == [raised |-> FALSE, err |-> "nocall", val |-> <<>>]

\* Faulty variant: the tasks of every host are returned.
get_deploy_tasks_unfiltered(r, shortname) ==
    IF do_request_raises(r, TRUE) THEN Raised("HTTPError")
    ELSE IF ~r.json THEN Returned(<<>>)
    ELSE Returned(r.tasks)
get_deploy_tasks(r, shortname) ==
    IF do_request_raises(r, TRUE) THEN Raised("HTTPError")
    ELSE IF ~r.json THEN Returned(<<>>)
    ELSE Returned(SelectSeq(r.tasks, LAMBDA t : t.host = shortname))

\* any([task['id'] == task_id for task in host_tasks])
\* Faulty variant: the task is reported active whatever the list holds.
deploy_task_active_always(host_tasks, id) == TRUE
deploy_task_active(host_tasks, id) ==
    \E i \in 1..Len(host_tasks) : host_tasks[i].id = id

\* The loop that ends schedule_deploy_task: the id of the first listed task
\* whose time_delta is below 5, None when the loop ends without a return.
RECURSIVE FirstFreshWithin(_, _, _)
FirstFreshWithin(host_tasks, now, limit) ==
    IF host_tasks = <<>> THEN None
    ELSE IF now - Head(host_tasks).created < limit THEN Head(host_tasks).id
    ELSE FirstFreshWithin(Tail(host_tasks), now, limit)
\* Faulty variant: "time_delta <= 5".
select_task_inclusive(host_tasks, now) == FirstFreshWithin(host_tasks, now, FreshSeconds + 1)
select_task(host_tasks, now) == FirstFreshWithin(host_tasks, now, FreshSeconds)

(***************************************************************************)
(* GET /host and get_host_data.                                            *)
(***************************************************************************)
HostRec(i) == [id |-> i, name |-> ShortName]
\* The service answers with the matching hosts and their number.
HostResponses ==
    { [sent |-> TRUE, ok |-> FALSE, json |-> FALSE, count |-> 0, hosts |-> <<>>],
      [sent |-> TRUE, ok |-> TRUE, json |-> FALSE, count |-> 0, hosts |-> <<>>] }
        \cup { [sent |-> TRUE, ok |-> TRUE, json |-> TRUE, count |-> Len(h), hosts |-> h] :
               h \in {<<>>, <<HostRec(7)>>, <<HostRec(7), HostRec(70)>>,
                      <<HostRec(70), HostRec(7), HostRec(71)>>} }
NoHostResp == [sent |-> FALSE, ok |-> FALSE, json |-> FALSE, count |-> 0, hosts |-> <<>>]

\* Faulty variant: the "count > 1" test is missing.
get_host_data_nonzero(r) ==
    IF do_request_raises(r, TRUE) THEN Raised("HTTPError")
    ELSE IF ~r.json THEN Raised("JSONDecodeError")
    ELSE IF r.count = 0 THEN Raised("HostNotFound")
    ELSE Returned(r.hosts[1])
get_host_data_result(r) ==
    IF do_request_raises(r, TRUE) THEN Raised("HTTPError")
    ELSE IF ~r.json THEN Raised("JSONDecodeError")
    ELSE IF r.count = 0 THEN Raised("HostNotFound")
    ELSE IF r.count > 1 THEN Raised("AmbiguousHost")
    ELSE Returned(r.hosts[1])

(***************************************************************************)
(* safe_while (teuthology.contextutil): the bounded retry loop.            *)
(***************************************************************************)
\* proceed(): the first call passes at once; a later one raises MaxWhileTries
\* when the attempt budget or the overall timeout is used up, else it sleeps.
proceed(cnt, secs, tries, tmo, sleep) ==
    IF cnt + 1 = 1 THEN [go |-> TRUE, counter |-> 1, elapsed |-> secs]
    ELSE IF cnt + 1 > tries \/ secs >= tmo
        THEN [go |-> FALSE, counter |-> cnt + 1, elapsed |-> secs]
    ELSE [go |-> TRUE, counter |-> cnt + 1, elapsed |-> secs + sleep]


\* proceed() of a safe_while given only an overall timeout: the first call
\* passes; a later call raises MaxWhileTries once the seconds slept reach the
\* timeout, else it sleeps.
proceed_timeout(cnt, secs, tmo, sleep) ==
    IF cnt + 1 = 1 THEN [go |-> TRUE, counter |-> 1, elapsed |-> secs]
    ELSE IF secs >= tmo THEN [go |-> FALSE, counter |-> cnt + 1, elapsed |-> secs]
    ELSE [go |-> TRUE, counter |-> cnt + 1, elapsed |-> secs + sleep]

(***************************************************************************)
(* GET /image and get_image_data.                                          *)
(***************************************************************************)
\* str.lower() on the OS names the sessions use.
Lower(s) ==
    CASE s = "CentOS" -> "centos"
      [] s = "CENTOS" -> "centos"
      [] s = "Ubuntu" -> "ubuntu"
      [] OTHER -> s
Stream == <<".", "s", "t", "r", "e", "a", "m">>
\* str.endswith
EndsWith(s, suf) ==
    /\ Len(s) >= Len(suf)
    /\ SubSeq(s, Len(s) - Len(suf) + 1, Len(s)) = suf
\* f"{machine_type}_{os_type}_{os_version}", kept as its three parts.
image_name(mt, ot, ov) == [mt |-> mt, os |-> ot, ver |-> ov]
\* f"{name}.stream"
stream_name(n) == [n EXCEPT !.ver = n.ver \o Stream]
NoName == [mt |-> "", os |-> "", ver |-> <<>>]

\* One request the session sent: method, path, the task id or image name it
\* carries, and the step of create() that sent it.
Req(m, p, id, name, at) == [m |-> m, p |-> p, id |-> id, name |-> name, at |-> at]

\* The answers to an image lookup: failure status, unparsable, no image, one image.
ImageResponses == {"error", "garbled", "none", "found"}
\* do_get(name): the image, None (0) when count is 0.
do_get(r) ==
    IF r = "error" THEN Raised("HTTPError")
    ELSE IF r = "garbled" THEN Raised("JSONDecodeError")
    ELSE IF r = "found" THEN Returned(42)
    ELSE Returned(None)

\* Faulty variant: the '.stream' lookup is tried for every OS and version.
get_image_data_any_os(ot, ov, r1, r2, rs) ==
    LET os_type == Lower(ot)
        name == image_name(MachineType, os_type, ov)
        q1 == <<Req("GET", "/image", 0, name, "set_image")>>
        q2 == <<Req("GET", "/image", 0, stream_name(name), "set_image")>>
        qs == <<Req("GET", "/image/search", 0, NoName, "set_image")>>
        first == do_get(r1)
        second == do_get(r2)
    IN  IF first.raised \/ first.val # None THEN [res |-> first, reqs |-> q1]
        ELSE IF second.raised \/ second.val # None
            THEN [res |-> second, reqs |-> q1 \o q2]
        ELSE [res |-> Raised("ImageNotFound"), reqs |-> (q1 \o q2) \o qs]

\* Faulty variant: a lookup that found no image is sent once more.
get_image_data_retry(ot, ov, r1, r2, rs) ==
    LET name == image_name(MachineType, Lower(ot), ov)
        q1 == <<Req("GET", "/image", 0, name, "set_image")>>
        qs == <<Req("GET", "/image/search", 0, NoName, "set_image")>>
        first == do_get(r1)
        again == do_get(r2)
    IN  IF first.raised \/ first.val # None THEN [res |-> first, reqs |-> q1]
        ELSE IF again.raised \/ again.val # None
            THEN [res |-> again, reqs |-> q1 \o q1]
        ELSE [res |-> Raised("ImageNotFound"), reqs |-> (q1 \o q1) \o qs]

\* get_image_data with the answers r1 (first lookup), r2 (the '.stream'
\* lookup) and rs (suggest_image_names): the result and the requests sent.
get_image_data(ot, ov, r1, r2, rs) ==
    LET os_type == Lower(ot)
        name == image_name(MachineType, os_type, ov)
        q1 == <<Req("GET", "/image", 0, name, "set_image")>>
        q2 == <<Req("GET", "/image", 0, stream_name(name), "set_image")>>
        qs == <<Req("GET", "/image/search", 0, NoName, "set_image")>>
        first == do_get(r1)
        second == do_get(r2)
        notfound(reqs) ==
            IF rs = "error" THEN [res |-> Raised("HTTPError"), reqs |-> reqs \o qs]
            ELSE IF rs = "garbled" THEN [res |-> Raised("JSONDecodeError"), reqs |-> reqs \o qs]
            ELSE [res |-> Raised("ImageNotFound"), reqs |-> reqs \o qs]
    IN  IF first.raised THEN [res |-> first, reqs |-> q1]
        ELSE IF first.val # None THEN [res |-> first, reqs |-> q1]
        ELSE IF os_type = "centos" /\ ~EndsWith(ov, Stream)
            THEN IF second.raised THEN [res |-> second, reqs |-> q1 \o q2]
                 ELSE IF second.val # None THEN [res |-> second, reqs |-> q1 \o q2]
                 ELSE notfound(q1 \o q2)
        ELSE notfound(q1)

\* Before get_image_data ran: no lookup answered, no search, no result.
NoImage == [resps |-> <<>>, search |-> "", res |-> NoCall]
\* Before _wait_for_ready ran: which loop it is in, that loop's safe_while,
\* the outcomes of the connect attempts and of the sentinel runs, in order.
NoReady ==
    [phase |-> "idle", sentinel_file |-> "", timeout |-> 0, counter |-> 0,
     elapsed |-> 0, connects |-> <<>>, runs |-> <<>>]
(***************************************************************************)
(* The node's shell, as _fix_hostname uses it.  Text is a sequence of      *)
(* one-character strings.                                                  *)
(***************************************************************************)
Space == " "
Newline == "\n"
IsSpace(c) == c \in {Space, Newline}
\* str.strip()
RECURSIVE LStrip(_)
LStrip(s) == IF s # <<>> /\ IsSpace(Head(s)) THEN LStrip(Tail(s)) ELSE s
RECURSIVE RStrip(_)
RStrip(s) ==
    IF s # <<>> /\ IsSpace(s[Len(s)]) THEN RStrip(SubSeq(s, 1, Len(s) - 1)) ELSE s
strip(s) == RStrip(LStrip(s))
\* The text before the first character of a set, and the text after it.
RECURSIVE UpTo(_, _)
UpTo(s, stops) ==
    IF s = <<>> \/ Head(s) \in stops THEN <<>> ELSE <<Head(s)>> \o UpTo(Tail(s), stops)
Past(s, stops) == SubSeq(s, Len(UpTo(s, stops)) + 2, Len(s))
\* etc_hosts.split('\n')[0]
first_line(s) == UpTo(s, {Newline})
\* re.split(r'\s+', line)[0]
first_field(s) == UpTo(s, {Space, Newline})
\* The lines of a file.
RECURSIVE file_lines(_)
file_lines(s) ==
    IF s = <<>> THEN <<>> ELSE <<first_line(s)>> \o file_lines(Past(s, {Newline}))
\* A basic regular expression made of ordinary characters and '.', which
\* matches any character of a line, matched at position i of the text.
MatchAt(pat, text, i) ==
    /\ i + Len(pat) - 1 <= Len(text)
    /\ \A k \in 1..Len(pat) :
        \/ pat[k] = text[i + k - 1]
        \/ pat[k] = "." /\ text[i + k - 1] # Newline
Matches(pat, text) == \E i \in 1..Len(text) : MatchAt(pat, text, i)
\* grep pat file: the lines that hold a match, each with its newline.
RECURSIVE grep_lines(_, _)
grep_lines(pat, ls) ==
    IF ls = <<>> THEN <<>>
    ELSE (IF Matches(pat, Head(ls)) THEN Head(ls) \o <<Newline>> ELSE <<>>)
            \o grep_lines(pat, Tail(ls))
grep(pat, text) == grep_lines(pat, file_lines(text))
\* Faulty variant: only the first match in the text is replaced.
RECURSIVE sed_first(_, _, _)
sed_first(pat, rep, text) ==
    IF text = <<>> THEN <<>>
    ELSE IF MatchAt(pat, text, 1)
        THEN rep \o SubSeq(text, Len(pat) + 1, Len(text))
    ELSE <<Head(text)>> \o sed_first(pat, rep, Tail(text))
\* sed -e 's/pat/rep/g': every match, leftmost first, none overlapping
\* another, is replaced.
RECURSIVE sed(_, _, _)
sed(pat, rep, text) ==
    IF text = <<>> THEN <<>>
    ELSE IF MatchAt(pat, text, 1)
        THEN rep \o sed(pat, rep, SubSeq(text, Len(pat) + 1, Len(text)))
    ELSE <<Head(text)>> \o sed(pat, rep, Tail(text))

\* A command _fix_hostname ran: which, whether its status is checked, how it ended.
Cmd(c, checked, ok) == [cmd |-> c, checked |-> checked, ok |-> ok]
\* The commands whose failure raises (fog.py:324, 331-339) and the two run
\* with check_status=False (fog.py:340-348).
CheckedCmds == {"read hostname", "set hostname", "sed name hosts", "sed ip hosts"}
ToleratedCmds == {"sed name hostname", "set hostname"}

\* Before _fix_hostname ran: the session's short name and IP address, the
\* node's live hostname and its two files, what _fix_hostname read (the
\* hostname, then grep's output from /etc/hosts as it was) and ran.
NoFix ==
    [ran |-> FALSE, raised |-> FALSE, shortname |-> <<>>, ip_address |-> <<>>,
     hostname |-> <<>>, hosts |-> <<>>, etc_hostname |-> <<>>,
     wrong_hostname |-> <<>>, grepped |-> FALSE, hosts_before |-> <<>>,
     etc_hosts |-> <<>>, wrong_ip |-> <<>>, cmds |-> <<>>]

\* Faulty variant: the two unchecked commands run only when grep found a line.
fix_hostname_tail_in_branch(n, abort, failing) ==
    LET wrong_hostname == strip(n.hostname \o <<Newline>>)
        etc_hosts == strip(grep(wrong_hostname, n.hosts))
        wrong_ip == first_field(strip(first_line(etc_hosts)))
    IN  IF etc_hosts = <<>>
        THEN [n EXCEPT !.ran = TRUE, !.wrong_hostname = wrong_hostname,
                       !.grepped = TRUE, !.hosts_before = n.hosts,
                       !.cmds = <<Cmd("read hostname", TRUE, TRUE)>>]
        ELSE [n EXCEPT !.ran = TRUE, !.wrong_hostname = wrong_hostname,
                       !.grepped = TRUE, !.hosts_before = n.hosts,
                       !.etc_hosts = etc_hosts, !.wrong_ip = wrong_ip,
                       !.hostname = n.shortname,
                       !.hosts = sed(wrong_ip, n.ip_address,
                                     sed(wrong_hostname, n.shortname, n.hosts)),
                       !.etc_hostname = sed(wrong_hostname, n.shortname, n.etc_hostname),
                       !.cmds = <<Cmd("read hostname", TRUE, TRUE),
                                  Cmd("set hostname", TRUE, TRUE),
                                  Cmd("sed name hosts", TRUE, TRUE),
                                  Cmd("sed ip hosts", TRUE, TRUE),
                                  Cmd("sed name hostname", FALSE, TRUE),
                                  Cmd("set hostname", FALSE, TRUE)>>]

\* _fix_hostname on node n.  abort names the checked command that fails (""
\* for none), failing the unchecked commands that fail.  A command that
\* fails changes nothing on the node.
fix_hostname_result(n, abort, failing) ==
    LET wrong_hostname == strip(n.hostname \o <<Newline>>)
        etc_hosts == strip(grep(wrong_hostname, n.hosts))
        wrong_ip == first_field(strip(first_line(etc_hosts)))
        read == [n EXCEPT !.ran = TRUE, !.wrong_hostname = wrong_hostname,
                          !.cmds = <<Cmd("read hostname", TRUE, abort # "read hostname")>>]
        raise(m) == [m EXCEPT !.raised = TRUE]
        run(m, c, checked, ok) == [m EXCEPT !.cmds = Append(@, Cmd(c, checked, ok))]
        tail(m) ==
            LET t1 == run(m, "sed name hostname", FALSE, "sed name hostname" \notin failing)
                t2 == IF "sed name hostname" \in failing THEN t1
                      ELSE [t1 EXCEPT !.etc_hostname = sed(wrong_hostname, n.shortname, @)]
                t3 == run(t2, "set hostname", FALSE, "set hostname" \notin failing)
            IN  IF "set hostname" \in failing THEN t3
                ELSE [t3 EXCEPT !.hostname = n.shortname]
        branch(m) ==
            LET b0 == [m EXCEPT !.wrong_ip = wrong_ip]
                b1 == run(b0, "set hostname", TRUE, abort # "set hostname")
                b2 == run([b1 EXCEPT !.hostname = n.shortname],
                          "sed name hosts", TRUE, abort # "sed name hosts")
                b3 == run([b2 EXCEPT !.hosts = sed(wrong_hostname, n.shortname, @)],
                          "sed ip hosts", TRUE, abort # "sed ip hosts")
            IN  IF abort = "set hostname" THEN raise(b1)
                ELSE IF abort = "sed name hosts" THEN raise(b2)
                ELSE IF abort = "sed ip hosts" THEN raise(b3)
                ELSE tail([b3 EXCEPT !.hosts = sed(wrong_ip, n.ip_address, @)])
        grepped == [read EXCEPT !.grepped = TRUE, !.hosts_before = n.hosts,
                                !.etc_hosts = etc_hosts]
    IN  IF abort = "read hostname" THEN raise(read)
        ELSE IF etc_hosts # <<>> THEN branch(grepped)
        ELSE tail(grepped)
\* A session of the multi-session specifications: its place in create(),
\* its host name, task_id and safe_while; kept with it are the host name the
\* service lists for the task it selected, the tasks (id and listed host
\* name) it sent cancel requests for, the ids the service cancelled on its
\* request, the ids of the tasks it scheduled, and the ids and host names in
\* the list get_deploy_tasks last returned.
NewPeer(h) ==
    [pc |-> "schedule_deploy_task", host |-> h, task_id |-> 0, task_host |-> "",
     counter |-> 0, elapsed |-> 0, cancels |-> {}, cancelled |-> {}, created |-> {},
     seen |-> {}]
\* No such sessions.
NoPeers == <<>>

(***************************************************************************)
(* State.                                                                  *)
(***************************************************************************)
VARIABLES
    conf,       \* config.fog
    timeout,    \* config.fog_reimage_timeout
    os_type,    \* self.os_type
    os_version, \* self.os_version
    tasks,      \* the service's active tasks: records [id, host, created]
    nextId,     \* the id the service gives the next task
    pc,         \* where create() is
    error,      \* the exception in flight or raised ("" for none)
    failedAt,   \* the step of create() whose failure raised it
    host_id,    \* create()'s host_id
    task_id,    \* create()'s task_id
    counter,    \* safe_while: calls of proceed()
    elapsed,    \* safe_while: seconds slept
    polls,      \* calls of deploy_task_active made by wait_for_deploy_task
    log,        \* the service requests and power operations issued, in order
    started,    \* the steps of create() begun, in order
    completed,  \* the steps of create() that returned normally, in order
    resp,       \* the last answer to GET /task/active
    gdt,        \* what the last call of get_deploy_tasks did with it
    hostResp,   \* the answer to GET /host
    host_data,  \* what get_host_data did with it
    selNow,     \* the clock reading of the selection loop
    before,     \* ids of the host's tasks active when schedule_deploy_task began
    atPost,     \* whether the schedule request was issued; the host's tasks then active
    img,        \* get_image_data: the answers its lookups got and its result
    ready,      \* _wait_for_ready: its phase, its loop and what each phase did
    fx,         \* _fix_hostname: the node's files and hostname, the commands run
    peers       \* further sessions of the same program against the same service

vars ==
    <<conf, timeout, os_type, os_version, tasks, nextId, pc, error, failedAt,
      host_id, task_id, counter, elapsed, polls, log, started, completed, resp, gdt,
      hostResp, host_data, selNow, before, atPost, img, ready, fx, peers>>
session == <<conf, timeout, os_type, os_version>>
service == <<tasks, nextId>>
loop == <<counter, elapsed, polls>>
listing == <<resp, gdt>>
sched == <<selNow, before, atPost>>
hostvars == <<hostResp, host_data, host_id>>
node == <<ready, fx>>

\* The steps of create(), in the order of its statements.
Order ==
    <<"get_host_data", "set_image", "schedule_deploy_task", "power_off", "power_on",
      "wait_for_deploy_task", "_wait_for_ready", "_fix_hostname", "_verify_installed_os">>

\* Tasks the service may hold before the session starts.
StaleCandidates ==
    [id : 1..MaxStale, host : HostNames, created : StampTimes]
InitTaskSets ==
    {S \in SUBSET StaleCandidates : \A a, b \in S : a.id = b.id => a = b}
SessionOs ==
    { <<"CentOS", <<"8">>>> }
HostTasks(S) == {t \in S : t.host = ShortName}
Ids(S) == {t.id : t \in S}

InitProgram ==
    /\ pc = "create"
    /\ error = ""
    /\ failedAt = ""
    /\ host_id = None
    /\ task_id = None
    /\ counter = 0
    /\ elapsed = 0
    /\ polls = 0
    /\ log = <<>>
    /\ started = <<>>
    /\ completed = <<>>
    /\ resp = NoResp
    /\ gdt = NoCall
    /\ hostResp = NoHostResp
    /\ host_data = NoCall
    /\ selNow = 0
    /\ before = {}
    /\ atPost = [issued |-> FALSE, active |-> {}]
    /\ img = NoImage
    /\ ready = NoReady
    /\ fx = NoFix
    /\ peers = NoPeers

\* A complete configuration, and one that lacks the API token.
GoodConf ==
    [endpoint |-> "set", api_token |-> "set", user_token |-> "set",
     machine_types |-> MtStr(<<"a", ",", "b">>)]
MainConfigs == {GoodConf, [GoodConf EXCEPT !.api_token = ""]}
ShortTimeouts == {Sleep * k : k \in 1..MaxWaitSleeps}

\* A session is constructed and create() is about to run.
InitWith(confs, taskSets) ==
    /\ conf \in confs
    /\ timeout \in ShortTimeouts
    /\ \E o \in SessionOs : os_type = o[1] /\ os_version = o[2]
    /\ tasks \in taskSets
    /\ nextId = MaxStale + 1
    /\ InitProgram

Init == InitWith(MainConfigs, InitTaskSets)

\* An exception leaves create().
Raise(e, at) ==
    /\ pc' = "raised"
    /\ error' = e
    /\ failedAt' = at

(***************************************************************************)
(* create(), statement by statement.                                       *)
(***************************************************************************)
\* fog.py:75-76
create_enabled ==
    /\ pc = "create"
    /\ IF ~enabled(conf)
        THEN Raise("NotConfigured", "enabled")
        ELSE pc' = "get_host_data" /\ UNCHANGED <<error, failedAt>>
    /\ UNCHANGED <<img, node, peers>>
    /\ UNCHANGED <<session, service, hostvars, task_id, loop, log, started,
                   completed, listing, sched>>

\* fog.py:77-78, 128-144
get_host_data ==
    /\ pc = "get_host_data"
    /\ \E r \in HostResponses :
        LET res == get_host_data_result(r)
        IN  /\ hostResp' = r
            /\ host_data' = res
            /\ IF res.raised
                THEN Raise(res.err, "get_host_data")
                     /\ UNCHANGED <<host_id, completed>>
                ELSE /\ host_id' = res.val.id
                     /\ pc' = "set_image"
                     /\ completed' = Append(completed, "get_host_data")
                     /\ UNCHANGED <<error, failedAt>>
    /\ log' = Append(log, Req("GET", "/host", 0, NoName, "get_host_data"))
    /\ started' = Append(started, "get_host_data")
    /\ UNCHANGED <<img, node, peers>>
    /\ UNCHANGED <<session, service, task_id, loop, listing, sched>>

\* fog.py:79, 186-199
set_image ==
    /\ pc = "set_image"
    /\ \E r1, r2, rs \in ImageResponses, putOk \in BOOLEAN :
        LET g == get_image_data(os_type, os_version, r1, r2, rs)
            put == Req("PUT", "/host", host_id, NoName, "set_image")
            lookups == SelectSeq(g.reqs, LAMBDA q : q.p = "/image")
            searched == SelectSeq(g.reqs, LAMBDA q : q.p = "/image/search") # <<>>
        IN  /\ img' = [resps |-> SubSeq(<<r1, r2>>, 1, Len(lookups)),
                       search |-> IF searched THEN rs ELSE "",
                       res |-> g.res]
            /\ IF g.res.raised
                THEN /\ log' = log \o g.reqs
                     /\ Raise(g.res.err, "set_image")
                     /\ UNCHANGED completed
                ELSE /\ log' = (log \o g.reqs) \o <<put>>
                     /\ IF putOk
                         THEN /\ pc' = "schedule_deploy_task"
                              /\ completed' = Append(completed, "set_image")
                              /\ UNCHANGED <<error, failedAt>>
                         ELSE Raise("HTTPError", "set_image") /\ UNCHANGED completed
    /\ started' = Append(started, "set_image")
    /\ UNCHANGED <<node, peers>>
    /\ UNCHANGED <<session, service, hostvars, task_id, loop, listing, sched>>


\* The service drops the task with this id from its active list.
Cancelled(S, ids) == {t \in S : t.id \notin ids}
\* The DELETE /task/cancel requests for the first n tasks of a list.
CancelReqs(l, n, at) ==
    [i \in 1..n |-> Req("DELETE", "/task/cancel", l[i].id, NoName, at)]
ListReq(at) == Req("GET", "/task/active", 0, NoName, at)

\* fog.py:206-211: list the host's active tasks and cancel each.  The first k
\* cancel requests succeed; when k is short of the list the next one fails.
schedule_cancel_stale ==
    /\ pc = "schedule_deploy_task"
    /\ before' = Ids(HostTasks(tasks))
    /\ started' = Append(started, "schedule_deploy_task")
    /\ \E r \in ActiveResponses(tasks) :
        LET g == get_deploy_tasks(r, ShortName)
        IN  /\ resp' = r
            /\ gdt' = g
            /\ IF g.raised
                THEN /\ Raise(g.err, "schedule_deploy_task")
                     /\ log' = Append(log, ListReq("schedule_deploy_task"))
                     /\ UNCHANGED tasks
                ELSE \E k \in 0..Len(g.val) :
                     LET n == IF k < Len(g.val) THEN k + 1 ELSE k
                     IN  /\ log' = Append(log, ListReq("schedule_deploy_task"))
                                     \o CancelReqs(g.val, n, "schedule_deploy_task")
                         /\ tasks' = Cancelled(tasks, {g.val[i].id : i \in 1..k})
                         /\ IF k < Len(g.val)
                             THEN Raise("HTTPError", "schedule_deploy_task")
                             ELSE pc' = "schedule_post" /\ UNCHANGED <<error, failedAt>>
    /\ UNCHANGED <<img, node, peers>>
    /\ UNCHANGED <<session, nextId, hostvars, task_id, loop, completed, selNow, atPost>>

\* fog.py:212-225: look up the 'deploy' task type, then POST /host/{id}/task.
\* The service stamps the new task with its own clock.
schedule_post ==
    /\ pc = "schedule_post"
    /\ \E tt \in {"error", "garbled", "empty", "ok"} :
        LET q == Req("GET", "/tasktype", 0, NoName, "schedule_deploy_task")
            post == Req("POST", "/host/task", host_id, NoName, "schedule_deploy_task")
        IN  IF tt # "ok"
            THEN /\ log' = Append(log, q)
                 /\ Raise(CASE tt = "error" -> "HTTPError"
                            [] tt = "garbled" -> "JSONDecodeError"
                            [] OTHER -> "IndexError", "schedule_deploy_task")
                 /\ UNCHANGED <<tasks, nextId, atPost>>
            ELSE /\ log' = log \o <<q, post>>
                 /\ atPost' = [issued |-> TRUE, active |-> Ids(HostTasks(tasks))]
                 /\ \E postOk \in BOOLEAN, c \in StampTimes :
                     IF postOk
                     THEN /\ tasks' = tasks \cup
                                {[id |-> nextId, host |-> ShortName, created |-> c]}
                          /\ nextId' = nextId + 1
                          /\ pc' = "schedule_select"
                          /\ UNCHANGED <<error, failedAt>>
                     ELSE /\ Raise("HTTPError", "schedule_deploy_task")
                          /\ UNCHANGED <<tasks, nextId>>
    /\ UNCHANGED <<img, node, peers>>
    /\ UNCHANGED <<session, hostvars, task_id, loop, started, completed, listing,
                   selNow, before>>

\* fog.py:226-236: list the host's tasks again and pick the fresh one.
schedule_select ==
    /\ pc = "schedule_select"
    /\ log' = Append(log, ListReq("schedule_deploy_task"))
    /\ \E r \in ActiveResponses(tasks), now \in Times :
        LET g == get_deploy_tasks(r, ShortName)
        IN  /\ resp' = r
            /\ gdt' = g
            /\ selNow' = now
            /\ IF g.raised
                THEN /\ Raise(g.err, "schedule_deploy_task")
                     /\ UNCHANGED <<task_id, completed>>
                ELSE /\ task_id' = select_task(g.val, now)
                     /\ pc' = "power_off"
                     /\ completed' = Append(completed, "schedule_deploy_task")
                     /\ UNCHANGED <<error, failedAt>>
    /\ UNCHANGED <<img, node, peers>>
    /\ UNCHANGED <<session, service, hostvars, loop, started, before, atPost>>

\* An exception inside the try block of create() (fog.py:81-88).
Caught(e, at) ==
    /\ pc' = "except"
    /\ error' = e
    /\ failedAt' = at

\* fog.py:85
\* Faulty variant: power_on() is skipped.
power_off_then_wait ==
    /\ pc = "power_off"
    /\ log' = Append(log, Req("POWER", "off", 0, NoName, "power_off"))
    /\ started' = Append(started, "power_off")
    /\ \E ok \in BOOLEAN :
        IF ok
        THEN /\ pc' = "wait_for_deploy_task"
             /\ completed' = Append(completed, "power_off")
             /\ UNCHANGED <<error, failedAt>>
        ELSE Caught("ConsoleError", "power_off") /\ UNCHANGED completed
    /\ UNCHANGED <<img, node, peers>>
    /\ UNCHANGED <<session, service, hostvars, task_id, loop, listing, sched>>
power_off ==
    /\ pc = "power_off"
    /\ log' = Append(log, Req("POWER", "off", 0, NoName, "power_off"))
    /\ started' = Append(started, "power_off")
    /\ \E ok \in BOOLEAN :
        IF ok
        THEN /\ pc' = "power_on"
             /\ completed' = Append(completed, "power_off")
             /\ UNCHANGED <<error, failedAt>>
        ELSE Caught("ConsoleError", "power_off") /\ UNCHANGED completed
    /\ UNCHANGED <<img, node, peers>>
    /\ UNCHANGED <<session, service, hostvars, task_id, loop, listing, sched>>

\* fog.py:86
power_on ==
    /\ pc = "power_on"
    /\ log' = Append(log, Req("POWER", "on", 0, NoName, "power_on"))
    /\ started' = Append(started, "power_on")
    /\ \E ok \in BOOLEAN :
        IF ok
        THEN /\ pc' = "wait_for_deploy_task"
             /\ completed' = Append(completed, "power_on")
             /\ UNCHANGED <<error, failedAt>>
        ELSE Caught("ConsoleError", "power_on") /\ UNCHANGED completed
    /\ UNCHANGED <<img, node, peers>>
    /\ UNCHANGED <<session, service, hostvars, task_id, loop, listing, sched>>

\* fog.py:87, 262-271: one turn of the loop of wait_for_deploy_task, that is
\* proceed() and, when it lets the loop go on, deploy_task_active(task_id).
wait_for_deploy_task ==
    /\ pc = "wait_for_deploy_task"
    /\ started' = IF counter = 0 THEN Append(started, "wait_for_deploy_task") ELSE started
    /\ LET p == proceed(counter, elapsed, Tries, timeout, Sleep)
       IN  /\ counter' = p.counter
           /\ elapsed' = p.elapsed
           /\ polls' = IF p.go THEN polls + 1 ELSE polls
           /\ IF ~p.go
               THEN /\ Caught("MaxWhileTries", "wait_for_deploy_task")
                    /\ UNCHANGED <<listing, completed>>
               ELSE \E r \in ActiveResponses(tasks) :
                    LET g == get_deploy_tasks(r, ShortName)
                    IN  /\ resp' = r
                        /\ gdt' = g
                        /\ IF g.raised
                            THEN /\ Caught(g.err, "wait_for_deploy_task")
                                 /\ UNCHANGED completed
                            ELSE IF deploy_task_active(g.val, task_id)
                            THEN UNCHANGED <<pc, error, failedAt, completed>>
                            ELSE /\ pc' = "_wait_for_ready"
                                 /\ completed' = Append(completed, "wait_for_deploy_task")
                                 /\ UNCHANGED <<error, failedAt>>
    /\ UNCHANGED <<img, node, peers>>
    /\ UNCHANGED <<session, service, hostvars, task_id, log, sched>>

\* fog.py:88-90, 273-281: the handler cancels the task and re-raises; a
\* failure of the cancel request is raised in place of the caught exception.
\* Faulty variant: the handler re-raises without cancelling.
except_reraise_only ==
    /\ pc = "except"
    /\ pc' = "raised"
    /\ UNCHANGED <<error, failedAt, log, tasks>>
    /\ UNCHANGED <<img, node, peers>>
    /\ UNCHANGED <<session, nextId, hostvars, task_id, loop, started, completed,
                   listing, sched>>
except_cancel ==
    /\ pc = "except"
    /\ pc' = "raised"
    /\ log' = Append(log, Req("DELETE", "/task/cancel", task_id, NoName, "except"))
    /\ \E ok \in BOOLEAN :
        IF ok
        THEN tasks' = Cancelled(tasks, {task_id}) /\ UNCHANGED error
        ELSE error' = "HTTPError" /\ UNCHANGED tasks
    /\ UNCHANGED failedAt
    /\ UNCHANGED <<img, node, peers>>
    /\ UNCHANGED <<session, nextId, hostvars, task_id, loop, started, completed,
                   listing, sched>>

\* fog.py:91, 283-316
\* Faulty variant: _wait_for_ready() inside the try block.
wait_for_ready_in_try ==
    /\ pc = "_wait_for_ready"
    /\ started' = Append(started, "_wait_for_ready")
    /\ \E ok \in BOOLEAN :
        IF ok
        THEN /\ pc' = "_fix_hostname"
             /\ completed' = Append(completed, "_wait_for_ready")
             /\ UNCHANGED <<error, failedAt>>
        ELSE Caught("MaxWhileTries", "_wait_for_ready") /\ UNCHANGED completed
    /\ UNCHANGED <<img, node, peers>>
    /\ UNCHANGED <<session, service, hostvars, task_id, loop, log, listing, sched>>
wait_for_ready ==
    /\ pc = "_wait_for_ready"
    /\ started' = Append(started, "_wait_for_ready")
    /\ \E ok \in BOOLEAN :
        IF ok
        THEN /\ pc' = "_fix_hostname"
             /\ completed' = Append(completed, "_wait_for_ready")
             /\ UNCHANGED <<error, failedAt>>
        ELSE Raise("MaxWhileTries", "_wait_for_ready") /\ UNCHANGED completed
    /\ UNCHANGED <<img, node, peers>>
    /\ UNCHANGED <<session, service, hostvars, task_id, loop, log, listing, sched>>

\* fog.py:92, 318-348
fix_hostname ==
    /\ pc = "_fix_hostname"
    /\ started' = Append(started, "_fix_hostname")
    /\ \E ok \in BOOLEAN :
        IF ok
        THEN /\ pc' = "_verify_installed_os"
             /\ completed' = Append(completed, "_fix_hostname")
             /\ UNCHANGED <<error, failedAt>>
        ELSE Raise("CommandFailedError", "_fix_hostname") /\ UNCHANGED completed
    /\ UNCHANGED <<img, node, peers>>
    /\ UNCHANGED <<session, service, hostvars, task_id, loop, log, listing, sched>>

\* fog.py:93-94, 350-356: the detected OS is the wanted one or it is not.
verify_installed_os ==
    /\ pc = "_verify_installed_os"
    /\ started' = Append(started, "_verify_installed_os")
    /\ \E same \in BOOLEAN :
        IF same
        THEN /\ pc' = "done"
             /\ completed' = Append(completed, "_verify_installed_os")
             /\ UNCHANGED <<error, failedAt>>
        ELSE Raise("OsMismatch", "_verify_installed_os") /\ UNCHANGED completed
    /\ UNCHANGED <<img, node, peers>>
    /\ UNCHANGED <<session, service, hostvars, task_id, loop, log, listing, sched>>

(***************************************************************************)
(* The service: a deploy task runs to its end and leaves the active list.  *)
(* This is followed from the first reading of the list by create() to the  *)
(* last: a task that ended earlier is a task absent from the initial list. *)
(***************************************************************************)
ListReadingSteps ==
    {"schedule_deploy_task", "schedule_post", "schedule_select", "power_off",
     "power_on", "wait_for_deploy_task", "except"}
task_finishes ==
    /\ pc \in ListReadingSteps
    /\ \E t \in tasks : tasks' = tasks \ {t}
    /\ UNCHANGED <<img, node, peers>>
    /\ UNCHANGED <<session, nextId, pc, error, failedAt, hostvars, task_id, loop,
                   log, started, completed, listing, sched>>

Next ==
    \/ create_enabled
    \/ get_host_data
    \/ set_image
    \/ schedule_cancel_stale
    \/ schedule_post
    \/ schedule_select
    \/ power_off
    \/ power_on
    \/ wait_for_deploy_task
    \/ except_cancel
    \/ wait_for_ready
    \/ fix_hostname
    \/ verify_installed_os
    \/ task_finishes

Spec == Init /\ [][Next]_vars

(***************************************************************************)
(* create() under every configuration, on a service with no active task.   *)
(***************************************************************************)
ConfigInit == InitWith(Configs, {{}})
SpecConfig == ConfigInit /\ [][Next]_vars

\* _wait_for_ready, one turn of its loops at a time.
SshSleep == 6
SentinelTimeout == 1800
SentinelSleep == 6
SentinelIncrement == 3
MaxSshSleeps == 2
SshTimeouts == {SshSleep * k : k \in 1..MaxSshSleeps}
\* remote.connect() and remote.run(): success, an exception the loop's
\* except clause lists, or any other exception.
AttemptOutcomes == {"ok", "retryable", "other"}
Last(q) == q[Len(q)]

\* Faulty variant: a retryable connect failure is taken for a connect.
wait_for_ready_ssh_no_retry ==
    /\ pc = "_wait_for_ready"
    /\ ready.phase = "ssh"
    /\ \E o \in AttemptOutcomes :
        /\ ready' = [ready EXCEPT !.connects = Append(@, o), !.counter = @ + 1,
                                  !.phase = IF o = "other" THEN "failed"
                                            ELSE IF ready.sentinel_file # "" THEN "sentinel"
                                            ELSE "ready"]
        /\ IF o = "other"
            THEN Raise("ConnectError", "_wait_for_ready") /\ UNCHANGED completed
            ELSE IF ready.sentinel_file # ""
                THEN UNCHANGED <<pc, error, failedAt, completed>>
            ELSE /\ pc' = "_fix_hostname"
                 /\ completed' = Append(completed, "_wait_for_ready")
                 /\ UNCHANGED <<error, failedAt>>
    /\ UNCHANGED <<img, fx, peers>>
    /\ UNCHANGED <<session, service, hostvars, task_id, loop, log, started, listing, sched>>
\* fog.py:285-301: one turn of the SSH loop.  A connect ends the loop; the
\* sentinel loop follows when a sentinel file is configured (fog.py:302-303),
\* else 'Node is ready' is logged (fog.py:316).
wait_for_ready_ssh ==
    /\ pc = "_wait_for_ready"
    /\ ready.phase = "ssh"
    /\ LET p == proceed_timeout(ready.counter, ready.elapsed, ready.timeout, SshSleep)
           loop1 == [ready EXCEPT !.counter = p.counter, !.elapsed = p.elapsed]
       IN  IF ~p.go
           THEN /\ ready' = [loop1 EXCEPT !.phase = "failed"]
                /\ Raise("MaxWhileTries", "_wait_for_ready")
                /\ UNCHANGED completed
           ELSE \E o \in AttemptOutcomes :
                LET tried == [loop1 EXCEPT !.connects = Append(@, o)]
                IN  IF o = "retryable"
                    THEN ready' = tried /\ UNCHANGED <<pc, error, failedAt, completed>>
                    ELSE IF o = "other"
                    THEN /\ ready' = [tried EXCEPT !.phase = "failed"]
                         /\ Raise("ConnectError", "_wait_for_ready")
                         /\ UNCHANGED completed
                    ELSE IF ready.sentinel_file # ""
                    THEN /\ ready' = [tried EXCEPT !.phase = "sentinel", !.counter = 0,
                                                   !.elapsed = 0]
                         /\ UNCHANGED <<pc, error, failedAt, completed>>
                    ELSE /\ ready' = [tried EXCEPT !.phase = "ready"]
                         /\ pc' = "_fix_hostname"
                         /\ completed' = Append(completed, "_wait_for_ready")
                         /\ UNCHANGED <<error, failedAt>>
    /\ UNCHANGED <<img, fx, peers>>
    /\ UNCHANGED <<session, service, hostvars, task_id, loop, log, started, listing, sched>>

\* fog.py:306-316: one turn of the sentinel loop; each sleep is 3 seconds
\* longer than the one before.
wait_for_ready_sentinel ==
    /\ pc = "_wait_for_ready"
    /\ ready.phase = "sentinel"
    /\ LET sleep_current == SentinelSleep + SentinelIncrement * (ready.counter - 1)
           p == proceed_timeout(ready.counter, ready.elapsed, SentinelTimeout, sleep_current)
           loop2 == [ready EXCEPT !.counter = p.counter, !.elapsed = p.elapsed]
       IN  IF ~p.go
           THEN /\ ready' = [loop2 EXCEPT !.phase = "failed"]
                /\ Raise("MaxWhileTries", "_wait_for_ready")
                /\ UNCHANGED completed
           ELSE \E o \in AttemptOutcomes :
                LET tried == [loop2 EXCEPT !.runs = Append(@, o)]
                IN  IF o = "retryable"
                    THEN ready' = tried /\ UNCHANGED <<pc, error, failedAt, completed>>
                    ELSE IF o = "other"
                    THEN /\ ready' = [tried EXCEPT !.phase = "failed"]
                         /\ Raise("CommandFailedError", "_wait_for_ready")
                         /\ UNCHANGED completed
                    ELSE /\ ready' = [tried EXCEPT !.phase = "ready"]
                         /\ pc' = "_fix_hostname"
                         /\ completed' = Append(completed, "_wait_for_ready")
                         /\ UNCHANGED <<error, failedAt>>
    /\ UNCHANGED <<img, fx, peers>>
    /\ UNCHANGED <<session, service, hostvars, task_id, loop, log, started, listing, sched>>

\* create() has reached _wait_for_ready; config.fog may name a sentinel file.
ReadyInit ==
    /\ conf = GoodConf
    /\ timeout \in ShortTimeouts
    /\ \E o \in SessionOs : os_type = o[1] /\ os_version = o[2]
    /\ tasks = {}
    /\ nextId = MaxStale + 2
    /\ pc = "_wait_for_ready"
    /\ task_id = MaxStale + 1
    /\ host_id = 7
    /\ error = ""
    /\ failedAt = ""
    /\ counter = 0
    /\ elapsed = 0
    /\ polls = 0
    /\ log = <<>>
    /\ started = SubSeq(Order, 1, 7)
    /\ completed = SubSeq(Order, 1, 6)
    /\ resp = NoResp
    /\ gdt = NoCall
    /\ hostResp = NoHostResp
    /\ host_data = NoCall
    /\ selNow = 0
    /\ before = {}
    /\ atPost = [issued |-> FALSE, active |-> {}]
    /\ img = NoImage
    /\ fx = NoFix
    /\ peers = NoPeers
    /\ \E sf \in {"", "/sentinel"}, t \in SshTimeouts :
        ready = [NoReady EXCEPT !.phase = "ssh", !.sentinel_file = sf, !.timeout = t]
ReadyNext ==
    \/ wait_for_ready_ssh
    \/ wait_for_ready_sentinel
SpecReady == ReadyInit /\ [][ReadyNext]_vars
\* Both loops are straight-line code of one thread: they keep taking turns.
FairSpecReady ==
    SpecReady /\ WF_vars(wait_for_ready_ssh) /\ WF_vars(wait_for_ready_sentinel)

\* fog.py:92, 318-348: _fix_hostname, with the outcome of each command.
fix_hostname_run ==
    /\ pc = "_fix_hostname"
    /\ ~fx.ran
    /\ \E abort \in {""} \cup CheckedCmds, failing \in SUBSET ToleratedCmds :
        LET r == fix_hostname_result(fx, abort, failing)
        IN  /\ fx' = r
            /\ IF r.raised
                THEN Raise("CommandFailedError", "_fix_hostname") /\ UNCHANGED completed
                ELSE /\ pc' = "_verify_installed_os"
                     /\ completed' = Append(completed, "_fix_hostname")
                     /\ UNCHANGED <<error, failedAt>>
    /\ UNCHANGED <<img, ready, peers>>
    /\ UNCHANGED <<session, service, hostvars, task_id, loop, log, started, listing, sched>>

\* The hostnames and addresses of the node the image was made on and of the
\* node it was written to, and the /etc/hosts the image may hold.
OldNames == {<<"a">>, <<"a", "b">>, <<"b", "a">>, <<"a", "a">>}
ShortNames == {<<"a">>, <<"b">>, <<"a", "b">>, <<"b", "a">>}
OldIps == {<<"1">>, <<"1", "2">>, <<"1", ".", "1">>}
IpAddresses == {<<"2">>, <<"1", "2">>, <<"2", "1">>, <<"2", ".", "1">>}
HostsLine(ip, names) == ((ip \o <<Space>>) \o names) \o <<Newline>>
OtherLine == HostsLine(<<"3">>, <<"c">>)
HostsFiles(old, ip) ==
    { HostsLine(ip, old),
      HostsLine(ip, ((old \o <<".", "c">>) \o <<Space>>) \o old),
      OtherLine \o HostsLine(ip, old),
      HostsLine(ip, old) \o HostsLine(<<"3">>, old \o <<"a">>),
      HostsLine(<<"1", "x", "1">>, <<"c">>) \o HostsLine(ip, old),
      OtherLine }
\* create() has reached _fix_hostname on a freshly imaged node.
FixInit ==
    /\ conf = GoodConf
    /\ timeout \in ShortTimeouts
    /\ \E o \in SessionOs : os_type = o[1] /\ os_version = o[2]
    /\ tasks = {}
    /\ nextId = MaxStale + 2
    /\ pc = "_fix_hostname"
    /\ task_id = MaxStale + 1
    /\ host_id = 7
    /\ error = ""
    /\ failedAt = ""
    /\ counter = 0
    /\ elapsed = 0
    /\ polls = 0
    /\ log = <<>>
    /\ started = SubSeq(Order, 1, 8)
    /\ completed = SubSeq(Order, 1, 7)
    /\ resp = NoResp
    /\ gdt = NoCall
    /\ hostResp = NoHostResp
    /\ host_data = NoCall
    /\ selNow = 0
    /\ before = {}
    /\ atPost = [issued |-> FALSE, active |-> {}]
    /\ img = NoImage
    /\ ready = NoReady
    /\ peers = NoPeers
    /\ \E old \in OldNames, new \in ShortNames, oldip \in OldIps, ip \in IpAddresses :
        \E h \in HostsFiles(old, oldip) :
            fx = [NoFix EXCEPT !.shortname = new, !.ip_address = ip, !.hostname = old,
                               !.hosts = h, !.etc_hostname = old \o <<Newline>>]
FixNext == fix_hostname_run
SpecFix == FixInit /\ [][FixNext]_vars

(***************************************************************************)
(* Several sessions of the same code against one service, each from        *)
(* schedule_deploy_task to the end of the deploy wait.                     *)
(***************************************************************************)
own ==
    <<session, pc, error, failedAt, hostvars, task_id, loop, log, started, completed,
      listing, sched, img, node>>
SessionIds == DOMAIN peers
\* The ids and host names of a list get_deploy_tasks returned.
Seen(host_tasks) ==
    {[id |-> host_tasks[x].id, host |-> host_tasks[x].host] : x \in DOMAIN host_tasks}
\* The host name listed for the task of an id ("" when the id is None).
HostOf(host_tasks, id) ==
    IF id = None THEN ""
    ELSE (CHOOSE t \in Seen(host_tasks) : t.id = id).host
Selected(i) == [id |-> peers[i].task_id, host |-> peers[i].task_host]
\* One task of each host may be active when the sessions start.
MultiTaskSets ==
    {{}} \cup {{[id |-> MaxStale, host |-> h, created |-> 0]} : h \in HostNames}
PeerSteps ==
    {"schedule_deploy_task", "schedule_post", "schedule_select", "power_off",
     "power_on", "wait_for_deploy_task", "except"}

\* fog.py:206-211
peer_schedule_cancel_stale(i) ==
    /\ peers[i].pc = "schedule_deploy_task"
    /\ \E r \in ActiveResponses(tasks) :
        LET g == get_deploy_tasks(r, peers[i].host)
        IN  IF g.raised
            THEN /\ peers' = [peers EXCEPT ![i].pc = "raised"]
                 /\ UNCHANGED tasks
            ELSE \E k \in 0..Len(g.val) :
                 LET n == IF k < Len(g.val) THEN k + 1 ELSE k
                     done == {g.val[x].id : x \in 1..k}
                 IN  /\ tasks' = Cancelled(tasks, done)
                     /\ peers' = [peers EXCEPT
                            ![i].seen = Seen(g.val),
                            ![i].cancels = @ \cup Seen(SubSeq(g.val, 1, n)),
                            ![i].cancelled = @ \cup done,
                            ![i].pc = IF k < Len(g.val) THEN "raised" ELSE "schedule_post"]
    /\ UNCHANGED <<own, nextId>>

\* fog.py:212-225
peer_schedule_post(i) ==
    /\ peers[i].pc = "schedule_post"
    /\ \E tt \in {"error", "garbled", "empty", "ok"} :
        IF tt # "ok"
        THEN /\ peers' = [peers EXCEPT ![i].pc = "raised"]
             /\ UNCHANGED <<tasks, nextId>>
        ELSE \E postOk \in BOOLEAN, c \in StampTimes :
             IF postOk
             THEN /\ tasks' = tasks \cup
                        {[id |-> nextId, host |-> peers[i].host, created |-> c]}
                  /\ nextId' = nextId + 1
                  /\ peers' = [peers EXCEPT ![i].pc = "schedule_select",
                                            ![i].created = @ \cup {nextId}]
             ELSE /\ peers' = [peers EXCEPT ![i].pc = "raised"]
                  /\ UNCHANGED <<tasks, nextId>>
    /\ UNCHANGED own

\* fog.py:226-236
peer_schedule_select(i) ==
    /\ peers[i].pc = "schedule_select"
    /\ \E r \in ActiveResponses(tasks), now \in Times :
        LET g == get_deploy_tasks(r, peers[i].host)
        IN  IF g.raised
            THEN peers' = [peers EXCEPT ![i].pc = "raised"]
            ELSE peers' = [peers EXCEPT ![i].pc = "power_off", ![i].seen = Seen(g.val),
                                        ![i].task_id = select_task(g.val, now),
                                        ![i].task_host = HostOf(g.val, select_task(g.val, now))]
    /\ UNCHANGED <<own, service>>

\* fog.py:85
peer_power_off(i) ==
    /\ peers[i].pc = "power_off"
    /\ \E ok \in BOOLEAN :
        IF ok THEN peers' = [peers EXCEPT ![i].pc = "power_on"]
        ELSE peers' = [peers EXCEPT ![i].pc = "except"]
    /\ UNCHANGED <<own, service>>

\* fog.py:86
peer_power_on(i) ==
    /\ peers[i].pc = "power_on"
    /\ \E ok \in BOOLEAN :
        IF ok THEN peers' = [peers EXCEPT ![i].pc = "wait_for_deploy_task"]
        ELSE peers' = [peers EXCEPT ![i].pc = "except"]
    /\ UNCHANGED <<own, service>>

\* fog.py:87, 262-271: one turn of the loop.
peer_wait_for_deploy_task(i) ==
    /\ peers[i].pc = "wait_for_deploy_task"
    /\ LET p == proceed(peers[i].counter, peers[i].elapsed, Tries, timeout, Sleep)
           turn == [peers[i] EXCEPT !.counter = p.counter, !.elapsed = p.elapsed]
       IN  IF ~p.go
           THEN peers' = [peers EXCEPT ![i] = [turn EXCEPT !.pc = "except"]]
           ELSE \E r \in ActiveResponses(tasks) :
                LET g == get_deploy_tasks(r, peers[i].host)
                IN  IF g.raised
                    THEN peers' = [peers EXCEPT ![i] = [turn EXCEPT !.pc = "except"]]
                    ELSE IF deploy_task_active(g.val, peers[i].task_id)
                    THEN peers' = [peers EXCEPT ![i] = [turn EXCEPT !.seen = Seen(g.val)]]
                    ELSE peers' = [peers EXCEPT ![i] =
                                     [turn EXCEPT !.seen = Seen(g.val),
                                                  !.pc = "_wait_for_ready"]]
    /\ UNCHANGED <<own, service>>

\* fog.py:88-90, 273-281
peer_except_cancel(i) ==
    /\ peers[i].pc = "except"
    /\ \E ok \in BOOLEAN :
        IF ok
        THEN /\ tasks' = Cancelled(tasks, {peers[i].task_id})
             /\ peers' = [peers EXCEPT ![i].pc = "raised",
                                       ![i].cancels = @ \cup {Selected(i)},
                                       ![i].cancelled = @ \cup {peers[i].task_id}]
        ELSE /\ peers' = [peers EXCEPT ![i].pc = "raised",
                                       ![i].cancels = @ \cup {Selected(i)}]
             /\ UNCHANGED tasks
    /\ UNCHANGED <<own, nextId>>

\* A task finishes on the service while a session is between scheduling and
\* the end of its wait.
peer_task_finishes ==
    /\ \E i \in SessionIds : peers[i].pc \in PeerSteps
    /\ \E t \in tasks : tasks' = tasks \ {t}
    /\ UNCHANGED <<own, nextId, peers>>

\* Sessions for the given hosts have resolved their hosts and set their
\* images; each is about to call schedule_deploy_task.
Sessions(hosts, taskSets) ==
    /\ conf = GoodConf
    /\ timeout \in ShortTimeouts
    /\ \E o \in SessionOs : os_type = o[1] /\ os_version = o[2]
    /\ tasks \in taskSets
    /\ nextId = MaxStale + 1
    /\ peers = [i \in DOMAIN hosts |-> NewPeer(hosts[i])]
    /\ pc = "sessions"
    /\ task_id = None
    /\ host_id = None
    /\ error = ""
    /\ failedAt = ""
    /\ counter = 0
    /\ elapsed = 0
    /\ polls = 0
    /\ log = <<>>
    /\ started = <<>>
    /\ completed = <<>>
    /\ resp = NoResp
    /\ gdt = NoCall
    /\ hostResp = NoHostResp
    /\ host_data = NoCall
    /\ selNow = 0
    /\ before = {}
    /\ atPost = [issued |-> FALSE, active |-> {}]
    /\ img = NoImage
    /\ ready = NoReady
    /\ fx = NoFix
MultiNext ==
    \/ \E i \in SessionIds : peer_schedule_cancel_stale(i)
    \/ \E i \in SessionIds : peer_schedule_post(i)
    \/ \E i \in SessionIds : peer_schedule_select(i)
    \/ \E i \in SessionIds : peer_power_off(i)
    \/ \E i \in SessionIds : peer_power_on(i)
    \/ \E i \in SessionIds : peer_wait_for_deploy_task(i)
    \/ \E i \in SessionIds : peer_except_cancel(i)
    \/ peer_task_finishes
\* The sessions target different hosts.
MultiInit == Sessions(<<ShortName, OtherName>>, MultiTaskSets)
SpecMulti == MultiInit /\ [][MultiNext]_vars
\* The sessions target the same host.
RaceInit == Sessions(<<ShortName, ShortName>>, {{}})
SpecRace == RaceInit /\ [][MultiNext]_vars

\* The first two steps of create() for sessions of several OS types and
\* versions: image resolution is fog.py:146-173.
StreamNoDot == SubSeq(Stream, 2, Len(Stream))
ImageOsTypes == {"CentOS", "centos", "CENTOS", "Ubuntu"}
ImageOsVersions == {<<"8">>, <<"8">> \o Stream, <<"8">> \o StreamNoDot, Stream}
ImageInit ==
    /\ conf = GoodConf
    /\ timeout \in ShortTimeouts
    /\ os_type \in ImageOsTypes
    /\ os_version \in ImageOsVersions
    /\ tasks = {}
    /\ nextId = MaxStale + 1
    /\ InitProgram
ImageNext ==
    \/ create_enabled
    \/ get_host_data
    \/ set_image
SpecImage == ImageInit /\ [][ImageNext]_vars

(***************************************************************************)
(* wait_for_deploy_task(task_id) alone, from its call on: any task id, any *)
(* active list, and a timeout below or beyond the attempt budget.          *)
(***************************************************************************)
WaitTaskSets ==
    {S \in SUBSET [id : 1..(MaxStale + 1), host : HostNames, created : {0}] :
        \A a, b \in S : a.id = b.id => a = b}
WaitInit ==
    /\ conf = GoodConf
    /\ timeout \in ShortTimeouts \cup {LongTimeout}
    /\ \E o \in SessionOs : os_type = o[1] /\ os_version = o[2]
    /\ tasks \in WaitTaskSets
    /\ nextId = MaxStale + 2
    /\ pc = "wait_for_deploy_task"
    /\ task_id \in {None} \cup 1..(MaxStale + 1)
    /\ host_id = 7
    /\ error = ""
    /\ failedAt = ""
    /\ counter = 0
    /\ elapsed = 0
    /\ polls = 0
    /\ log = <<>>
    /\ started = SubSeq(Order, 1, 5)
    /\ completed = SubSeq(Order, 1, 5)
    /\ resp = NoResp
    /\ gdt = NoCall
    /\ hostResp = NoHostResp
    /\ host_data = NoCall
    /\ selNow = 0
    /\ before = {}
    /\ atPost = [issued |-> FALSE, active |-> {}]
    /\ img = NoImage
    /\ ready = NoReady
    /\ fx = NoFix
    /\ peers = NoPeers
WaitNext ==
    \/ wait_for_deploy_task
    \/ task_finishes
SpecWait == WaitInit /\ [][WaitNext]_vars
\* The loop is straight-line code of one thread: it keeps taking its turns.
FairSpecWait == SpecWait /\ WF_vars(wait_for_deploy_task)


(***************************************************************************)
(* The claims.                                                             *)
(***************************************************************************)
\* The positions in the log of the cancel requests for a task id.
CancelsOf(id) == {i \in DOMAIN log : log[i].m = "DELETE" /\ log[i].id = id}
PowerOps == {i \in DOMAIN log : log[i].m = "POWER"}
TrySteps == {"power_off", "power_on", "wait_for_deploy_task"}
LaterSteps == {"_wait_for_ready", "_fix_hostname", "_verify_installed_os"}
InSeq(x, q) == \E i \in DOMAIN q : q[i] = x
IsPrefix(a, b) == Len(a) <= Len(b) /\ a = SubSeq(b, 1, Len(a))

\* C1: when power_off, power_on or wait_for_deploy_task raised (the deploy-wait
\* timeout included), by the time the error has left create() exactly one
\* cancel request was issued for the task id schedule_deploy_task returned,
\* and it is the one the handler sent.
C1_ExactlyOneCancel ==
    (pc = "raised" /\ failedAt \in TrySteps) =>
        /\ Cardinality(CancelsOf(task_id)) = 1
        /\ \A i \in CancelsOf(task_id) : log[i].at = "except"
C1_Witness ==
    /\ pc = "raised"
    /\ failedAt = "wait_for_deploy_task"
    /\ error = "MaxWhileTries"
    /\ task_id # None
    /\ Cardinality(CancelsOf(task_id)) = 1

\* C2 as stated: whichever step after schedule_deploy_task fails (power cycle,
\* deploy wait, readiness wait, hostname fix, OS verification), a cancel request
\* for the scheduled task was issued before create() raised.
C2_CancelAfterAnyFailure ==
    (pc = "raised" /\ failedAt \in TrySteps \cup LaterSteps) =>
        CancelsOf(task_id) # {}
\* C2 amended: a failure of power_off, power_on or wait_for_deploy_task is
\* followed by a cancel request for the scheduled task before create() raises;
\* a failure of the readiness wait, the hostname fix or the OS verification
\* raises with no cancel request for it.
C2_CancelOnlyInTry ==
    (pc = "raised" /\ failedAt \in TrySteps \cup LaterSteps) =>
        (CancelsOf(task_id) # {} <=> failedAt \in TrySteps)
C2_Witness ==
    /\ pc = "raised"
    /\ failedAt = "_wait_for_ready"
    /\ task_id # None
    /\ CancelsOf(task_id) = {}

\* C3: when the schedule request is issued, every task the service held active
\* for the host at the start of schedule_deploy_task has been sent a cancel
\* request and none of them is still active.
C3_StaleCancelledAtPost ==
    atPost.issued =>
        \A id \in before : CancelsOf(id) # {} /\ id \notin atPost.active

\* The host's tasks in the last answer to GET /task/active, as the service sent them.
ListedForHost ==
    IF resp.ok /\ resp.json
    THEN {resp.tasks[i] : i \in {j \in DOMAIN resp.tasks : resp.tasks[j].host = ShortName}}
    ELSE {}
Fresh(t) == selNow - t.created < FreshSeconds

\* C4: right after the selection loop, a returned id is the id of a listed
\* task of this host whose age (now minus createdTime) is below 5 seconds,
\* and when no listed task of the host is that fresh no id is returned.
C4_FreshSelection ==
    (pc = "power_off") =>
        /\ task_id # None => \E t \in ListedForHost : t.id = task_id /\ Fresh(t)
        /\ (\A t \in ListedForHost : ~Fresh(t)) => task_id = None
C4_Witness ==
    /\ pc = "power_off"
    /\ task_id # None
    /\ \E t \in ListedForHost : t.id = task_id /\ t.created > selNow
    /\ \E t \in ListedForHost : ~Fresh(t)

\* C5: when schedule_deploy_task returned no id, create() fails there: no
\* power operation is issued, the deploy wait does not complete and none of
\* the later steps begins.
C5_NoTaskIsFailure ==
    (InSeq("schedule_deploy_task", completed) /\ task_id = None) =>
        /\ PowerOps = {}
        /\ ~InSeq("wait_for_deploy_task", completed)
        /\ \A st \in LaterSteps : ~InSeq(st, started)
        /\ pc # "done"

\* C6: the steps of create() begin only in the order of Order, a step begins
\* only when every earlier one has returned without error, and create() ends
\* in success only after all nine, the OS verification last, have returned.
C6_StepOrder ==
    /\ IsPrefix(started, Order)
    /\ IsPrefix(completed, Order)
    /\ Len(completed) <= Len(started)
    /\ Len(started) <= Len(completed) + 1
    /\ Len(started) > Len(completed) =>
          pc \in {"raised", "except", "schedule_post", "schedule_select",
                  "wait_for_deploy_task"}
    /\ pc \notin {"raised", "except"} => error = ""
    /\ pc = "done" => completed = Order
C6_Witness ==
    /\ pc = "done"
    /\ completed = Order
    /\ task_id # None

\* Whether the list get_deploy_tasks last returned holds the awaited task.
InReturnedList == \E i \in DOMAIN gdt.val : gdt.val[i].id = task_id
WaitLoopBounded ==
    /\ polls <= Tries
    /\ (pc = "wait_for_deploy_task" /\ polls > 0) =>
          /\ InReturnedList
          /\ elapsed = (polls - 1) * Sleep
          /\ polls > 1 => elapsed - Sleep < timeout
    /\ pc = "_wait_for_ready" =>
          polls > 0 /\ ~gdt.raised /\ ~InReturnedList
    /\ (pc = "except" /\ error = "MaxWhileTries") =>
          /\ InReturnedList
          /\ polls = Tries \/ elapsed >= timeout
          /\ polls < Tries => elapsed - Sleep < timeout
C8_ListingNeverRaises ==
    (resp.sent /\ (~resp.ok \/ ~resp.json)) =>
        (~gdt.raised /\ gdt.val = <<>>)

\* C9 as stated: with an empty endpoint, API token or user token, or with no
\* recognized machine type (get_types() empty), create() raises the
\* not-configured error before any request or power operation; and
\* get_types() is empty whenever enabled() is false.
NoRecognizedType(c) == get_types(c) = <<>>
C9_NotConfiguredFailsFirst ==
    /\ (pc # "create" /\ (\/ FalsyStr(conf.endpoint)
                          \/ FalsyStr(conf.api_token)
                          \/ FalsyStr(conf.user_token)
                          \/ NoRecognizedType(conf))) =>
            (pc = "raised" /\ error = "NotConfigured" /\ log = <<>>)
    /\ ~enabled(conf) => get_types(conf) = <<>>

\* C10: for a host-search answer that carries a count, get_host_data returns
\* a host exactly when count is 1, and then the one host of the answer; with
\* count 0 or above 1 it raises and create() ends there.
C10_HostIffCountOne ==
    (hostResp.sent /\ hostResp.ok /\ hostResp.json) =>
        /\ ~host_data.raised <=> hostResp.count = 1
        /\ ~host_data.raised =>
              host_data.val = hostResp.hosts[1] /\ host_id = hostResp.hosts[1].id
        /\ host_data.raised =>
              pc = "raised" /\ failedAt = "get_host_data" /\ host_id = None
C10_Witness ==
    /\ hostResp.sent
    /\ hostResp.count = 1
    /\ ~host_data.raised
    /\ host_id = 7


\* The image lookups get_image_data sent, in order.
Lookups == SelectSeq(log, LAMBDA q : q.p = "/image")
Searches == SelectSeq(log, LAMBDA q : q.p = "/image/search")
FallbackApplies == Lower(os_type) = "centos" /\ ~EndsWith(os_version, Stream)
FirstName == image_name(MachineType, Lower(os_type), os_version)

\* C11: get_image_data first looks up {machine_type}_{lowercase os_type}_
\* {os_version}.  When that lookup finds no image, a second lookup, of the same
\* name with '.stream' appended, is sent exactly when the lowercase os_type is
\* 'centos' and os_version does not end with '.stream'.  There are never more
\* than two lookups, none follows a lookup that found an image or failed, and
\* an image found is what get_image_data returns.
C11_StreamFallback ==
    img.res # NoCall =>
        /\ Len(Lookups) = Len(img.resps)
        /\ Len(Lookups) \in 1..2
        /\ Lookups[1].name = FirstName
        /\ img.resps[1] # "none" => Len(Lookups) = 1
        /\ img.resps[1] = "none" => (Len(Lookups) = 2 <=> FallbackApplies)
        /\ Len(Lookups) = 2 => Lookups[2].name = stream_name(FirstName)
        /\ img.resps[Len(img.resps)] = "found" => img.res = Returned(42)
        /\ ~img.res.raised => img.resps[Len(img.resps)] = "found"
C11_Witness ==
    /\ os_type = "CentOS"
    /\ img.resps = <<"none", "found">>
    /\ img.res = Returned(42)
    /\ Lookups[2].name.ver = <<"8">> \o Stream


\* C12 as stated: whenever every lookup sent found no image, get_image_data
\* fails with the image-not-found error, never with another error and never
\* with a returned image.
C12_NotFoundError ==
    (img.res # NoCall /\ \A i \in 1..Len(img.resps) : img.resps[i] = "none") =>
        img.res = Raised("ImageNotFound")


\* C15 as stated: the error that leaves create() after a failure of
\* power_off, power_on or wait_for_deploy_task is the error that step raised,
\* whatever the compensating cancel request does.
C15_OriginalErrorRaised ==
    [][(pc = "except" /\ pc' = "raised") => error' = error]_vars

\* C16 as stated: wait_for_deploy_task returns only after an active-task
\* listing that was well-formed and did not hold the task for the host, so
\* the readiness step does not begin while the service holds the task active.
C16_WaitEndsOnWellFormedListing ==
    (pc = "_wait_for_ready") =>
        /\ resp.ok /\ resp.json
        /\ task_id \notin Ids(ListedForHost)
        /\ task_id \notin Ids(HostTasks(tasks))

HostFailed == pc = "raised" /\ error \in {"HostNotFound", "AmbiguousHost"}
\* Every lookup get_image_data sent found no image.
NoImageFound == img.search # ""
Issued(ms) == {i \in DOMAIN log : log[i].m \in ms}
\* C17: when get_host_data finds no host or several, or get_image_data finds
\* no image, create() has raised in that step: the lookup that failed was
\* sent once, no PUT, POST, DELETE or power operation has been issued, no
\* later step has begun, and after a host failure no image lookup was sent.
C17_ResolutionFailsAtOnce ==
    /\ HostFailed =>
          /\ failedAt = "get_host_data" /\ started = <<"get_host_data">>
          /\ log = <<Req("GET", "/host", 0, NoName, "get_host_data")>>
    /\ NoImageFound =>
          /\ pc = "raised" /\ failedAt = "set_image"
          /\ started = <<"get_host_data", "set_image">>
          /\ Issued({"PUT", "POST", "DELETE", "POWER"}) = {}
          /\ Len(SelectSeq(log, LAMBDA q : q.p = "/host")) = 1
          /\ \A i, j \in DOMAIN Lookups : Lookups[i].name = Lookups[j].name => i = j
    /\ (HostFailed \/ NoImageFound) => tasks \in InitTaskSets
C17_Witness ==
    /\ NoImageFound
    /\ error = "ImageNotFound"
    /\ Len(Lookups) = 2
    /\ tasks # {}


AllRetryable(q) == \A i \in DOMAIN q : q[i] = "retryable"
\* Every attempt but the last failed with a retryable error: the loop went
\* on after each of those and stopped at the first other outcome.
RetriedUntilLast(q) == q # <<>> => AllRetryable(SubSeq(q, 1, Len(q) - 1))
SshSucceeded == ready.connects # <<>> /\ Last(ready.connects) = "ok"
SentinelSucceeded == ready.runs # <<>> /\ Last(ready.runs) = "ok"
ReadyFailed == pc = "raised" /\ failedAt = "_wait_for_ready"
NodeIsReady == InSeq("_wait_for_ready", completed)
\* What C18 says of the two loops, apart from how they may end in failure.
ReadyPhases ==
    /\ RetriedUntilLast(ready.connects) /\ RetriedUntilLast(ready.runs)
    /\ ready.phase = "ssh" => AllRetryable(ready.connects) /\ ready.runs = <<>>
    /\ ready.phase = "sentinel" => AllRetryable(ready.runs)
    /\ ready.phase \in {"ssh", "sentinel"} => pc = "_wait_for_ready"
    /\ (ready.phase = "sentinel" \/ ready.runs # <<>>) =>
          ready.sentinel_file # "" /\ SshSucceeded
    /\ (ReadyFailed /\ error = "MaxWhileTries") =>
          /\ IF SshSucceeded
              THEN AllRetryable(ready.runs) /\ ready.elapsed >= SentinelTimeout
              ELSE /\ AllRetryable(ready.connects)
                   /\ ready.elapsed >= ready.timeout
                   /\ ready.elapsed - SshSleep < ready.timeout
    /\ NodeIsReady =>
          /\ SshSucceeded
          /\ ready.sentinel_file # "" => SentinelSucceeded
          /\ ready.sentinel_file = "" => ready.runs = <<>>
    /\ (ready.phase = "ready") <=> NodeIsReady
\* C18 as stated: each loop of _wait_for_ready ends at its first success or
\* with the failure of its exhausted timeout.
C18_EndsBySuccessOrTimeout ==
    ReadyPhases /\ (ReadyFailed => error = "MaxWhileTries")
\* C18 amended: the SSH loop goes on after every retryable connect failure
\* and ends at the first connect, with the timeout failure once its timeout
\* is used up, or with the error of a connect attempt that is not retryable;
\* the sentinel loop runs only with a sentinel file configured and after a
\* connect, goes on after connection errors and ends at the first successful
\* run, with the timeout failure, or with any other error of a run; 'Node is
\* ready' is logged only when every loop that ran ended in success; and
\* _wait_for_ready ends in every run.
C18_ReadyPhasesEnd ==
    /\ [](ReadyPhases /\ (ReadyFailed => (error = "MaxWhileTries" \/
              Last(ready.connects \o ready.runs) = "other")))
    /\ <>(pc # "_wait_for_ready")
C18_Witness ==
    /\ NodeIsReady
    /\ ready.connects = <<"retryable", "ok">>
    /\ Len(ready.runs) > 2
    /\ SentinelSucceeded


\* The text holds the string.
Occurs(q, text) ==
    \E i \in 1..(Len(text) - Len(q) + 1) : SubSeq(text, i, i + Len(q) - 1) = q
Prefix(q, k) == SubSeq(q, 1, k)
Suffix(q, k) == SubSeq(q, Len(q) - k + 1, Len(q))
\* One string holds the other, or a non-empty end of one begins the other:
\* then a replacement by r can leave or make an occurrence of q.
Overlap(q, r) ==
    \/ Occurs(q, r) \/ Occurs(r, q)
    \/ \E k \in 1..Len(q) : k <= Len(r) /\
            (Suffix(q, k) = Prefix(r, k) \/ Suffix(r, k) = Prefix(q, k))
\* _fix_hostname found a line for the old hostname and every command succeeded.
FixedWithMatch ==
    /\ fx.ran /\ ~fx.raised /\ fx.etc_hosts # <<>>
    /\ \A i \in DOMAIN fx.cmds : fx.cmds[i].ok
Attempts(c, checked) ==
    Cardinality({i \in DOMAIN fx.cmds : fx.cmds[i].cmd = c /\ fx.cmds[i].checked = checked})
NoMatch == fx.grepped /\ fx.etc_hosts = <<>>
ToleratedFailed == \E i \in DOMAIN fx.cmds : ~fx.cmds[i].checked /\ ~fx.cmds[i].ok
\* What C19 says of the branch without a match and of tolerated failures.
NoMatchFrame ==
    /\ NoMatch =>
          /\ fx.hosts = fx.hosts_before
          /\ Attempts("set hostname", TRUE) = 0
          /\ Attempts("sed name hosts", TRUE) = 0 /\ Attempts("sed ip hosts", TRUE) = 0
          /\ ~fx.raised
    /\ ToleratedFailed => (~fx.raised /\ pc = "_verify_installed_os")
\* C19 as stated: without a match /etc/hosts is unchanged and no checked
\* hostname-set runs; whether or not grep found a line, the /etc/hostname
\* rewrite and the final hostname-set are each attempted exactly once; a
\* failure of either does not fail _fix_hostname.
C19_TailRunsOnceInBothBranches ==
    /\ NoMatchFrame
    /\ fx.grepped =>
          /\ Attempts("sed name hostname", FALSE) = 1
          /\ Attempts("set hostname", FALSE) = 1
\* C19 amended: as stated, except that with a match the two unchecked
\* commands are attempted exactly once only when the three checked commands
\* of the branch succeeded; when one of those fails _fix_hostname raises at
\* once and attempts neither.
C19_TailRunsOnceUnlessRaised ==
    /\ NoMatchFrame
    /\ (fx.grepped /\ ~fx.raised) =>
          /\ Attempts("sed name hostname", FALSE) = 1
          /\ Attempts("set hostname", FALSE) = 1
          /\ Last(fx.cmds) = Cmd("set hostname", FALSE, Last(fx.cmds).ok)
    /\ fx.raised =>
          /\ Attempts("sed name hostname", FALSE) = 0
          /\ Attempts("set hostname", FALSE) = 0
          /\ Last(fx.cmds).checked /\ ~Last(fx.cmds).ok
          /\ pc = "raised" /\ error = "CommandFailedError"
C19_Witness ==
    /\ NoMatch
    /\ pc = "_verify_installed_os"
    /\ fx.cmds = <<Cmd("read hostname", TRUE, TRUE), Cmd("sed name hostname", FALSE, FALSE),
                   Cmd("set hostname", FALSE, FALSE)>>
    /\ fx.hostname # fx.shortname


\* C14: with sessions for different hosts interleaved on one service, every
\* cancel request a session sends that names a task names one the service
\* lists under the session's own host; the task it selects as its own is
\* listed under its own host; every list its schedule step and its wait
\* decide on holds tasks of its own host only, the wait going on exactly
\* while that list holds the selected task; and no session cancels a task
\* another session scheduled.
C14_SessionsKeepToTheirHost ==
    \A i \in SessionIds :
        /\ \A c \in peers[i].cancels : c.id # None => c.host = peers[i].host
        /\ peers[i].task_id # None => peers[i].task_host = peers[i].host
        /\ \A t \in peers[i].seen : t.host = peers[i].host
        /\ (peers[i].pc = "wait_for_deploy_task" /\ peers[i].counter > 0) =>
              \E t \in peers[i].seen : t.id = peers[i].task_id
        /\ peers[i].pc = "_wait_for_ready" =>
              \A t \in peers[i].seen : t.id # peers[i].task_id
        /\ \A j \in SessionIds \ {i} :
              {c.id : c \in peers[i].cancels} \cap peers[j].created = {}
C14_Witness ==
    /\ peers[1].pc = "raised" /\ peers[1].task_id # None
    /\ Selected(1) \in peers[1].cancels
    /\ peers[2].pc = "wait_for_deploy_task" /\ peers[2].counter > 0
    /\ peers[2].created # {} /\ peers[2].created \subseteq Ids(tasks)
    /\ Cardinality(peers[1].cancels) > 1

\* The ids the service cancelled on the request of a session other than i.
CancelledByOthers(i) == UNION {peers[j].cancelled : j \in SessionIds \ {i}}
\* C20 as stated: with two sessions on one host, a session that passes its
\* deploy wait had its own task run to completion: the task it scheduled
\* was not cancelled by the other session.
C20_PassedWaitMeansCompleted ==
    \A i \in SessionIds :
        peers[i].pc = "_wait_for_ready" =>
            peers[i].created \cap CancelledByOthers(i) = {}

=============================================================================
